---- MODULE Spec2Model ----
(***************************************************************************)
(* The option catalogue and the atomic mutation types declared and         *)
(* documented in include/610/fdb_c_options.g.h (FoundationDB C API 610).   *)
(*                                                                         *)
(*   Spec     the option registry: the process-wide network scope and one  *)
(*            transaction handle, with the options being set, the network  *)
(*            being set up and the transaction being reset by onError.     *)
(*   MutSpec  the mutation engine: one atomic operation submitted with its *)
(*            operands and then applied to the value fetched for the key.  *)
(*   RegSpec  the option registry with its three scopes: options looked up *)
(*            and set on the network, a database and a transaction.        *)
(*   ValSpec  validate alone, over parameters of every shape.              *)
(*   ConcSpec the network scope used by several threads at once.           *)
(***************************************************************************)
EXTENDS Integers, Sequences, FiniteSets, TLC

VARIABLES
    apiVersion,   \* the API version the registry was built for
    netState,     \* network scope: "Configuring" or "Started"
    netOptions,   \* network option codes recorded as set
    trOptions,    \* transaction handle: option code -> [set, val]
    dbOptions,    \* database handle: option code -> [set, val]
    conc,         \* the transition lock, and each thread's call on the network scope
    last,         \* the last option call and what it returned
    phase,        \* mutation engine: "idle", "pending" or "applied"
    call,         \* the atomic operation submitted
    ret           \* what applying it returned

optVars == <<apiVersion, netState, netOptions, trOptions, dbOptions, conc, last>>
mutVars == <<phase, call, ret>>
vars ==
    <<apiVersion, netState, netOptions, trOptions, dbOptions, conc, last,
      phase, call, ret>>

-----------------------------------------------------------------------------
(* Bounds of the model.                                                    *)

\* Longest parameter of the arithmetic, bitwise, append and compare types.
MaxLen == 2
\* The configured maximum value size; stored values are never longer.
MaxValueSize == 3
\* Longest payload of a versionstamped operand (before its 4 offset bytes).
MaxPayload == 11

\* The byte values operands are built from.
SampleBytes == {0, 1, 255}

RECURSIVE StringsUpTo(_)
StringsUpTo(n) ==
    IF n = 0 THEN {<<>>}
    ELSE LET shorter == StringsUpTo(n - 1)
         IN  shorter \cup {Append(s, b) : s \in {t \in shorter : Len(t) = n - 1},
                                          b \in SampleBytes}

-----------------------------------------------------------------------------
(* FDBNetworkOption                                                        *)

FDB_NET_OPTION_TRACE_ENABLE == 30
FDB_NET_OPTION_DISABLE_MULTI_VERSION_CLIENT_API == 60
FDB_NET_OPTION_CALLBACKS_ON_EXTERNAL_THREADS == 61
FDB_NET_OPTION_EXTERNAL_CLIENT_LIBRARY == 62
FDB_NET_OPTION_EXTERNAL_CLIENT_DIRECTORY == 63

\* Every code of the enumeration.
FDBNetworkOption ==
    {10, 20, 30, 31, 32, 33, 34, 40, 41, 42, 43, 45, 46, 47, 48, 49, 50, 51,
     52, 53, 54, 60, 61, 62, 63, 64, 70, 71}

\* A variant of MustBeSetBeforeNetwork that misses the tag on
\* EXTERNAL_CLIENT_DIRECTORY.
MustBeSetBeforeNetwork_NoDirectory ==
    {FDB_NET_OPTION_DISABLE_MULTI_VERSION_CLIENT_API,
     FDB_NET_OPTION_CALLBACKS_ON_EXTERNAL_THREADS,
     FDB_NET_OPTION_EXTERNAL_CLIENT_LIBRARY}

\* The options documented "Must be set before setting up the network."
MustBeSetBeforeNetwork ==
    {FDB_NET_OPTION_DISABLE_MULTI_VERSION_CLIENT_API,
     FDB_NET_OPTION_CALLBACKS_ON_EXTERNAL_THREADS,
     FDB_NET_OPTION_EXTERNAL_CLIENT_LIBRARY,
     FDB_NET_OPTION_EXTERNAL_CLIENT_DIRECTORY}

-----------------------------------------------------------------------------
(* FDBTransactionOption                                                    *)

FDB_TR_OPTION_CAUSAL_WRITE_RISKY == 10
FDB_TR_OPTION_TIMEOUT == 500
FDB_TR_OPTION_RETRY_LIMIT == 501
FDB_TR_OPTION_MAX_RETRY_DELAY == 502

\* Every code of the enumeration.
FDBTransactionOption ==
    {10, 20, 21, 30, 51, 52, 110, 120, 130, 200, 201, 300, 301, 302, 401, 402,
     403, 404, 500, 501, 502, 600, 601, 700, 701, 702, 711}

FDB_TR_OPTION_SNAPSHOT_RYW_ENABLE == 600
FDB_TR_OPTION_SNAPSHOT_RYW_DISABLE == 601

-----------------------------------------------------------------------------
(* FDBDatabaseOption                                                       *)

FDB_DB_OPTION_MAX_WATCHES == 20
FDB_DB_OPTION_TRANSACTION_TIMEOUT == 500
FDB_DB_OPTION_SNAPSHOT_RYW_ENABLE == 26
FDB_DB_OPTION_SNAPSHOT_RYW_DISABLE == 27

\* A variant of FDBDatabaseOption that looks a code up in one table shared
\* with the transaction options.
FDBDatabaseOption_Flat ==
    {10, 20, 21, 22, 500, 501, 502, 26, 27} \cup FDBTransactionOption

\* Every code of the enumeration.
FDBDatabaseOption == {10, 20, 21, 22, 500, 501, 502, 26, 27}

\* The table of a scope.
OptionTable(scope) ==
    CASE scope = "Network" -> FDBNetworkOption
      [] scope = "Database" -> FDBDatabaseOption
      [] scope = "Transaction" -> FDBTransactionOption

\* A variant of MutuallyExclusive that knows the pair of the database scope
\* only.
MutuallyExclusive_DatabaseOnly(scope, code) ==
    IF scope = "Database"
         /\ code \in {FDB_DB_OPTION_SNAPSHOT_RYW_ENABLE, FDB_DB_OPTION_SNAPSHOT_RYW_DISABLE}
    THEN {FDB_DB_OPTION_SNAPSHOT_RYW_ENABLE, FDB_DB_OPTION_SNAPSHOT_RYW_DISABLE} \ {code}
    ELSE {}

\* The options of `scope` that state the opposite of option `code`:
\* SNAPSHOT_RYW_ENABLE ("Snapshot read operations will see the results of
\* writes done in the same transaction") and SNAPSHOT_RYW_DISABLE ("will not
\* see"), in the database and in the transaction scope.
MutuallyExclusive(scope, code) ==
    IF scope = "Database"
         /\ code \in {FDB_DB_OPTION_SNAPSHOT_RYW_ENABLE, FDB_DB_OPTION_SNAPSHOT_RYW_DISABLE}
    THEN {FDB_DB_OPTION_SNAPSHOT_RYW_ENABLE, FDB_DB_OPTION_SNAPSHOT_RYW_DISABLE} \ {code}
    ELSE IF scope = "Transaction"
              /\ code \in {FDB_TR_OPTION_SNAPSHOT_RYW_ENABLE,
                           FDB_TR_OPTION_SNAPSHOT_RYW_DISABLE}
         THEN {FDB_TR_OPTION_SNAPSHOT_RYW_ENABLE, FDB_TR_OPTION_SNAPSHOT_RYW_DISABLE}
                  \ {code}
         ELSE {}

\* The first API version at which onError keeps the three retry options.
RetainApiVersion == 610

\* A variant of RetainedAfterOnError that keeps the options at every API
\* version.
RetainedAfterOnError_Ungated(version) ==
    {FDB_TR_OPTION_TIMEOUT, FDB_TR_OPTION_RETRY_LIMIT,
     FDB_TR_OPTION_MAX_RETRY_DELAY}

\* The options that the reset done by onError leaves as they are: "Prior to
\* API version 610, like all other transaction options, the timeout must be
\* reset after a call to onError.  If the API version is 610 or greater, the
\* timeout is not reset after an onError call", and the same for the retry
\* limit and the maximum retry delay.
RetainedAfterOnError(version) ==
    IF version >= RetainApiVersion
    THEN {FDB_TR_OPTION_TIMEOUT, FDB_TR_OPTION_RETRY_LIMIT,
          FDB_TR_OPTION_MAX_RETRY_DELAY}
    ELSE {}

\* An option of a handle: not set, or set with its (parsed) parameter.
NotSet == [set |-> FALSE, val |-> 0]
SetTo(v) == [set |-> TRUE, val |-> v]

-----------------------------------------------------------------------------
(* The inputs of the option registry.                                      *)

\* API versions the registry is built for, on both sides of 610.
ApiVersions == {520, 609, 610}

\* Network option codes the calls are made with; 99 is in no table.
NetCodes ==
    {FDB_NET_OPTION_TRACE_ENABLE,
     FDB_NET_OPTION_DISABLE_MULTI_VERSION_CLIENT_API,
     FDB_NET_OPTION_CALLBACKS_ON_EXTERNAL_THREADS,
     FDB_NET_OPTION_EXTERNAL_CLIENT_LIBRARY,
     FDB_NET_OPTION_EXTERNAL_CLIENT_DIRECTORY, 99}

\* Transaction option codes the calls are made with; 99 is in no table.
TrCodes ==
    {FDB_TR_OPTION_CAUSAL_WRITE_RISKY, FDB_TR_OPTION_TIMEOUT,
     FDB_TR_OPTION_RETRY_LIMIT, FDB_TR_OPTION_MAX_RETRY_DELAY, 99}

\* Parameter values of the Int options of a transaction.
TrValues == {0, 7}

NoCall == [op |-> "none", code |-> 0, result |-> "Ok"]

\* No thread is using the network scope.
NoThreads == [lock |-> 0, starts |-> 0, th |-> <<>>]

-----------------------------------------------------------------------------
(* The option registry.                                                    *)

OptInit ==
    /\ apiVersion \in ApiVersions
    /\ netState = "Configuring"
    /\ netOptions = {}
    /\ trOptions = [c \in FDBTransactionOption |-> NotSet]
    /\ dbOptions = [c \in FDBDatabaseOption |-> NotSet]
    /\ last = NoCall

\* What setting network option `code` returns in network state `state`.
NetworkOptionResult(state, code) ==
    IF code \notin OptionTable("Network") THEN "UnknownOption"
    ELSE IF code \in MustBeSetBeforeNetwork /\ state = "Started"
         THEN "OptionLateBinding"
         ELSE "Ok"

SetNetworkOption(code) ==
    LET result == NetworkOptionResult(netState, code)
    IN  /\ netOptions' = IF result = "Ok" THEN netOptions \cup {code} ELSE netOptions
        /\ last' = [op |-> "set_network_option", code |-> code, result |-> result]
        /\ UNCHANGED <<apiVersion, netState, trOptions, dbOptions, conc>>
        /\ UNCHANGED mutVars

\* Setting up the network: Configuring -> Started, and nothing when the
\* network is started already.
SetupNetwork ==
    /\ netState' = "Started"
    /\ last' = [op |-> "setup_network", code |-> 0, result |-> "Ok"]
    /\ UNCHANGED <<apiVersion, netOptions, trOptions, dbOptions, conc>>
    /\ UNCHANGED mutVars

\* The options of a handle of `scope` once option `code` is set to `value`:
\* setting an option clears the options it is mutually exclusive with.
StoreOption(options, scope, code, value) ==
    [c \in DOMAIN options |->
        IF c = code THEN SetTo(value)
        ELSE IF c \in MutuallyExclusive(scope, code) THEN NotSet
        ELSE options[c]]

SetTransactionOption(code, value) ==
    LET result == IF code \in OptionTable("Transaction") THEN "Ok" ELSE "UnknownOption"
    IN  /\ trOptions' = IF result = "Ok"
                        THEN StoreOption(trOptions, "Transaction", code, value)
                        ELSE trOptions
        /\ last' = [op |-> "set_transaction_option", code |-> code, result |-> result]
        /\ UNCHANGED <<apiVersion, netState, netOptions, dbOptions, conc>>
        /\ UNCHANGED mutVars

SetDatabaseOption(code, value) ==
    LET result == IF code \in OptionTable("Database") THEN "Ok" ELSE "UnknownOption"
    IN  /\ dbOptions' = IF result = "Ok"
                        THEN StoreOption(dbOptions, "Database", code, value)
                        ELSE dbOptions
        /\ last' = [op |-> "set_database_option", code |-> code, result |-> result]
        /\ UNCHANGED <<apiVersion, netState, netOptions, trOptions, conc>>
        /\ UNCHANGED mutVars

\* The reset of the transaction that onError does after a retryable error.
OnError ==
    /\ trOptions' = [c \in FDBTransactionOption |->
                        IF c \in RetainedAfterOnError(apiVersion)
                        THEN trOptions[c] ELSE NotSet]
    /\ last' = [op |-> "on_error", code |-> 0, result |-> "Ok"]
    /\ UNCHANGED <<apiVersion, netState, netOptions, dbOptions, conc>>
    /\ UNCHANGED mutVars

\* The parameter values a call setting transaction option `code` is made with.
TrValuesOf(code) ==
    IF code \in {FDB_TR_OPTION_TIMEOUT, FDB_TR_OPTION_RETRY_LIMIT,
                 FDB_TR_OPTION_MAX_RETRY_DELAY}
    THEN TrValues ELSE {0}

-----------------------------------------------------------------------------
(* FDBMutationType                                                         *)

FDB_MUTATION_TYPE_ADD == 2
FDB_MUTATION_TYPE_BIT_AND == 6
FDB_MUTATION_TYPE_BIT_OR == 7
FDB_MUTATION_TYPE_BIT_XOR == 8
FDB_MUTATION_TYPE_APPEND_IF_FITS == 9
FDB_MUTATION_TYPE_MAX == 12
FDB_MUTATION_TYPE_MIN == 13
FDB_MUTATION_TYPE_SET_VERSIONSTAMPED_KEY == 14
FDB_MUTATION_TYPE_SET_VERSIONSTAMPED_VALUE == 15
FDB_MUTATION_TYPE_BYTE_MIN == 16
FDB_MUTATION_TYPE_BYTE_MAX == 17
FDB_MUTATION_TYPE_COMPARE_AND_CLEAR == 20

\* Every code of the enumeration; the deprecated AND, OR and XOR are the
\* codes 6, 7 and 8 of BIT_AND, BIT_OR and BIT_XOR.
FDBMutationType == {2, 6, 7, 8, 9, 12, 13, 14, 15, 16, 17, 20}

\* The value stored for a key: not present, or present with its bytes.
Absent == [present |-> FALSE, bytes |-> <<>>]
Present(b) == [present |-> TRUE, bytes |-> b]

\* "If the existing value in the database is not present or shorter than
\* param, it is first extended to the length of param with zero bytes.  If
\* param is shorter than the existing value in the database, the existing
\* value is truncated to match the length of param."
Reconcile(existing, n) ==
    [i \in 1..n |-> IF i <= Len(existing.bytes) THEN existing.bytes[i] ELSE 0]

\* Byte i and up of the sum of two little-endian integers of one length,
\* with the carry coming from the bytes below.
RECURSIVE AddFrom(_, _, _, _)
AddFrom(a, b, i, carry) ==
    IF i > Len(b) THEN <<>>
    ELSE LET s == a[i] + b[i] + carry
         IN  <<s % 256>> \o AddFrom(a, b, i + 1, s \div 256)

\* A variant of MutationAdd that drops the carry between the bytes.
MutationAdd_NoCarry(existing, param) ==
    Present([i \in 1..Len(param) |->
                (Reconcile(existing, Len(param))[i] + param[i]) % 256])

\* ADD: "Performs an addition of little-endian integers."
MutationAdd(existing, param) ==
    Present(AddFrom(Reconcile(existing, Len(param)), param, 1, 0))

\* The low `bits` bits of x AND y, x OR y, x XOR y.
RECURSIVE BitsAnd(_, _, _)
BitsAnd(x, y, bits) ==
    IF bits = 0 THEN 0
    ELSE ((x % 2) * (y % 2)) + (2 * BitsAnd(x \div 2, y \div 2, bits - 1))

RECURSIVE BitsOr(_, _, _)
BitsOr(x, y, bits) ==
    IF bits = 0 THEN 0
    ELSE (IF (x % 2) + (y % 2) > 0 THEN 1 ELSE 0)
             + (2 * BitsOr(x \div 2, y \div 2, bits - 1))

RECURSIVE BitsXor(_, _, _)
BitsXor(x, y, bits) ==
    IF bits = 0 THEN 0
    ELSE (((x % 2) + (y % 2)) % 2) + (2 * BitsXor(x \div 2, y \div 2, bits - 1))

\* A variant of MutationBitAnd that extends a value that is not present with
\* zero bytes, as the other bitwise types do.
MutationBitAnd_AbsentIsZero(existing, param) ==
    Present([i \in 1..Len(param) |->
                BitsAnd(Reconcile(existing, Len(param))[i], param[i], 8)])

\* BIT_AND: "If the existing value in the database is not present, then
\* param is stored in the database."
MutationBitAnd(existing, param) ==
    IF ~existing.present THEN Present(param)
    ELSE Present([i \in 1..Len(param) |->
                    BitsAnd(Reconcile(existing, Len(param))[i], param[i], 8)])

\* BIT_OR
MutationBitOr(existing, param) ==
    Present([i \in 1..Len(param) |->
                BitsOr(Reconcile(existing, Len(param))[i], param[i], 8)])

\* BIT_XOR
MutationBitXor(existing, param) ==
    Present([i \in 1..Len(param) |->
                BitsXor(Reconcile(existing, Len(param))[i], param[i], 8)])

\* A variant of MutationAppendIfFits that appends whatever the size.
MutationAppendIfFits_NoLimit(existing, param) ==
    IF ~existing.present THEN Present(param)
    ELSE Present(existing.bytes \o param)

\* APPEND_IF_FITS: "This will only append the value if the final
\* concatenated value size is less than or equal to the maximum value size
\* (i.e., if it fits).  WARNING: No error is surfaced back to the user if the
\* final value is too large".
MutationAppendIfFits(existing, param) ==
    IF ~existing.present THEN Present(param)
    ELSE IF Len(existing.bytes) + Len(param) <= MaxValueSize
         THEN Present(existing.bytes \o param)
         ELSE existing

\* A variant of LittleEndianLess that looks at the most significant byte only.
LittleEndianLess_HighByteOnly(a, b, i) ==
    i > 0 /\ a[i] < b[i]

\* A variant of LittleEndianLess that compares from the first byte, as the
\* lexicographic types do.
RECURSIVE LittleEndianLess_FromFirstByte(_, _, _)
LittleEndianLess_FromFirstByte(a, b, i) ==
    IF i = 0 THEN FALSE
    ELSE LET j == Len(b) - i + 1
         IN  IF a[j] # b[j] THEN a[j] < b[j]
             ELSE LittleEndianLess_FromFirstByte(a, b, i - 1)

\* "Performs a little-endian comparison of byte strings": a < b over the
\* bytes 1..i of two strings of one length, the last byte the most
\* significant.
RECURSIVE LittleEndianLess(_, _, _)
LittleEndianLess(a, b, i) ==
    IF i = 0 THEN FALSE
    ELSE IF a[i] # b[i] THEN a[i] < b[i]
         ELSE LittleEndianLess(a, b, i - 1)

\* MAX: "The larger of the two values is then stored in the database."
MutationMax(existing, param) ==
    LET e == Reconcile(existing, Len(param))
    IN  IF LittleEndianLess(e, param, Len(param)) THEN Present(param) ELSE Present(e)

\* MIN: "If the existing value in the database is not present, then param is
\* stored in the database. ... The smaller of the two values is then stored
\* in the database."
MutationMin(existing, param) ==
    LET e == Reconcile(existing, Len(param))
    IN  IF ~existing.present THEN Present(param)
        ELSE IF LittleEndianLess(param, e, Len(param)) THEN Present(param)
             ELSE Present(e)

\* A variant of LexicographicLess that compares the strings as little-endian
\* integers, the shorter one extended with zero bytes.
LexicographicLess_LittleEndian(a, b) ==
    LET n == IF Len(a) > Len(b) THEN Len(a) ELSE Len(b)
    IN  LittleEndianLess(Reconcile(Present(a), n), Reconcile(Present(b), n), n)

\* "Performs lexicographic comparison of byte strings": a < b.
RECURSIVE LexicographicLess(_, _)
LexicographicLess(a, b) ==
    IF Len(b) = 0 THEN FALSE
    ELSE IF Len(a) = 0 THEN TRUE
    ELSE IF Head(a) # Head(b) THEN Head(a) < Head(b)
    ELSE LexicographicLess(Tail(a), Tail(b))

\* BYTE_MIN: "If the existing value in the database is not present, then
\* param is stored.  Otherwise the smaller of the two values is then stored".
MutationByteMin(existing, param) ==
    IF ~existing.present THEN Present(param)
    ELSE IF LexicographicLess(param, existing.bytes) THEN Present(param)
         ELSE existing

\* BYTE_MAX: "Otherwise the larger of the two values is then stored".
MutationByteMax(existing, param) ==
    IF ~existing.present THEN Present(param)
    ELSE IF LexicographicLess(existing.bytes, param) THEN Present(param)
         ELSE existing

\* A variant of MutationCompareAndClear that compares after bringing the
\* existing value to the length of param.
MutationCompareAndClear_Reconciled(existing, param) ==
    IF existing.present /\ Reconcile(existing, Len(param)) = param
    THEN Absent ELSE existing

\* COMPARE_AND_CLEAR: "If the existing value in the database is equal to the
\* given value, then given key is cleared."
MutationCompareAndClear(existing, param) ==
    IF existing.present /\ existing.bytes = param THEN Absent ELSE existing

-----------------------------------------------------------------------------
(* Versionstamps.  A committed version is 64 bits wide; it is held as its  *)
(* four 16-bit words, the most significant first, each in 0..65535.        *)

\* The two bytes of a 16-bit word "serialized in big-Endian order".
BigEndian16(w) == <<w \div 256, w % 256>>

\* "A versionstamp is a 10 byte ... value for each committed transaction.
\* The first 8 bytes are the committed version of the database (serialized in
\* big-Endian order).  The last 2 bytes are monotonic in the serialization
\* order for transactions."
Versionstamp(version, order) ==
    BigEndian16(version[1]) \o BigEndian16(version[2]) \o BigEndian16(version[3])
        \o BigEndian16(version[4]) \o BigEndian16(order)

\* A variant of OffsetOf that computes the offset from the final two bytes
\* only, as was done prior to API version 520.
OffsetOf_FinalTwoBytes(buf) ==
    LET n == Len(buf)
    IN  buf[n - 1] + (256 * buf[n])

\* "removing the final four bytes ... and reading those as a little-Endian
\* 32-bit integer to get a position pos".
OffsetOf(buf) ==
    LET n == Len(buf)
    IN  buf[n - 3] + (256 * buf[n - 2]) + (65536 * buf[n - 1]) + (16777216 * buf[n])

\* "The 10 bytes ... from pos to pos + 10 are replaced with the versionstamp
\* of the transaction used.  The first byte ... is position 0."
Versionstamped(buf, stamp) ==
    LET pos == OffsetOf(buf)
    IN  [i \in 1..(Len(buf) - 4) |->
            IF pos < i /\ i <= pos + 10 THEN stamp[i - pos] ELSE buf[i]]

\* An operand too short to hold the four offset bytes, or whose ten bytes at
\* pos do not lie within what precedes them.
MalformedOperand(buf) ==
    \/ Len(buf) < 4
    \/ OffsetOf(buf) + 10 > Len(buf) - 4

Returned(key, value) == [err |-> "none", key |-> key, value |-> value]
Failed(error, c) == [err |-> error, key |-> c.key, value |-> c.existing]

\* SET_VERSIONSTAMPED_KEY: "Transforms key using a versionstamp for the
\* transaction.  Sets the transformed key in the database to param."
SetVersionstampedKey(c) ==
    IF MalformedOperand(c.key) THEN Failed("MalformedParameter", c)
    ELSE Returned(Versionstamped(c.key, Versionstamp(c.version, c.order)),
                  Present(c.param))

\* SET_VERSIONSTAMPED_VALUE: "Transforms param using a versionstamp for the
\* transaction.  Sets the key given to the transformed param."
SetVersionstampedValue(c) ==
    IF MalformedOperand(c.param) THEN Failed("MalformedParameter", c)
    ELSE Returned(c.key,
                  Present(Versionstamped(c.param, Versionstamp(c.version, c.order))))

\* What the atomic operation `op` makes of the value `existing` with `param`,
\* for the types that leave the key as it is.
MutatedValue(existing, op, param) ==
    CASE op = FDB_MUTATION_TYPE_ADD -> MutationAdd(existing, param)
      [] op = FDB_MUTATION_TYPE_BIT_AND -> MutationBitAnd(existing, param)
      [] op = FDB_MUTATION_TYPE_BIT_OR -> MutationBitOr(existing, param)
      [] op = FDB_MUTATION_TYPE_BIT_XOR -> MutationBitXor(existing, param)
      [] op = FDB_MUTATION_TYPE_APPEND_IF_FITS -> MutationAppendIfFits(existing, param)
      [] op = FDB_MUTATION_TYPE_MAX -> MutationMax(existing, param)
      [] op = FDB_MUTATION_TYPE_MIN -> MutationMin(existing, param)
      [] op = FDB_MUTATION_TYPE_BYTE_MIN -> MutationByteMin(existing, param)
      [] op = FDB_MUTATION_TYPE_BYTE_MAX -> MutationByteMax(existing, param)
      [] op = FDB_MUTATION_TYPE_COMPARE_AND_CLEAR ->
             MutationCompareAndClear(existing, param)

\* The engine: what applying the submitted operation returns.
ApplyMutation(c) ==
    IF c.op \notin FDBMutationType THEN Failed("InvalidMutationType", c)
    ELSE IF c.op = FDB_MUTATION_TYPE_SET_VERSIONSTAMPED_KEY
         THEN SetVersionstampedKey(c)
    ELSE IF c.op = FDB_MUTATION_TYPE_SET_VERSIONSTAMPED_VALUE
         THEN SetVersionstampedValue(c)
    ELSE Returned(c.key, MutatedValue(c.existing, c.op, c.param))

-----------------------------------------------------------------------------
(* The inputs of the mutation engine.                                      *)

\* The operands of the documented scenarios: "ab", "cd", and 256 and 512 as
\* two little-endian bytes.
ScenarioStrings == {<<97, 98>>, <<99, 100>>, <<0, 1>>, <<0, 2>>}

\* The values a key may hold when an operation is applied.
Existing ==
    {Absent} \cup {Present(s) : s \in StringsUpTo(MaxValueSize) \cup ScenarioStrings}

\* The parameters of the types that leave the key as it is.
Params == StringsUpTo(MaxLen) \cup ScenarioStrings

\* Committed versions (four 16-bit words) and orders within a commit.
Versions == {<<0, 0, 1, 2>>, <<258, 0, 65535, 772>>}
Orders == {1, 513}

\* Payloads whose bytes differ from place to place.
Payload(n, first) == [i \in 1..n |-> (first + i) % 256]

\* Offsets as four bytes, within and beyond the payloads.
OffsetBytes ==
    {<<b0, b1, 0, b3>> : b0 \in {0, 1, 2, 255}, b1 \in {0, 1}, b3 \in {0, 1}}

\* The operands the versionstamped types are given: short strings, and
\* payloads followed by four offset bytes.
VersionstampOperands ==
    StringsUpTo(MaxLen) \cup {Payload(n, first) \o pos :
                    n \in 0..MaxPayload, first \in {100, 250}, pos \in OffsetBytes}

TheKey == <<1>>
NoVersion == <<0, 0, 0, 0>>

\* 3 is the code of no mutation type.
PlainCalls ==
    [key : {TheKey}, existing : Existing,
     op : (FDBMutationType \cup {3})
              \ {FDB_MUTATION_TYPE_SET_VERSIONSTAMPED_KEY,
                 FDB_MUTATION_TYPE_SET_VERSIONSTAMPED_VALUE},
     param : Params, version : {NoVersion}, order : {0}]

VersionstampedKeyCalls ==
    [key : VersionstampOperands, existing : {Absent},
     op : {FDB_MUTATION_TYPE_SET_VERSIONSTAMPED_KEY},
     param : {<<>>, <<1, 255>>}, version : Versions, order : Orders]

VersionstampedValueCalls ==
    [key : {TheKey}, existing : {Absent, Present(<<1>>)},
     op : {FDB_MUTATION_TYPE_SET_VERSIONSTAMPED_VALUE},
     param : VersionstampOperands, version : Versions, order : Orders]

Calls == PlainCalls \cup VersionstampedKeyCalls \cup VersionstampedValueCalls

NoReturn == [err |-> "pending", key |-> <<>>, value |-> Absent]
NoSubmission ==
    [key |-> TheKey, existing |-> Absent, op |-> 0, param |-> <<>>,
     version |-> NoVersion, order |-> 0]

-----------------------------------------------------------------------------
(* The mutation engine.                                                    *)

\* An atomic operation is submitted with the value fetched for its key.
Submit ==
    /\ phase = "idle"
    /\ phase' = "pending"
    /\ call' \in Calls
    /\ ret' = NoReturn
    /\ UNCHANGED optVars

\* The submitted operation is applied.
Apply ==
    /\ phase = "pending"
    /\ phase' = "applied"
    /\ ret' = ApplyMutation(call)
    /\ UNCHANGED <<call>>
    /\ UNCHANGED optVars

\* The result is handed back and the engine, which keeps nothing between two
\* operations, is ready for the next one.
Finish ==
    /\ phase = "applied"
    /\ phase' = "idle"
    /\ call' = NoSubmission
    /\ ret' = NoReturn
    /\ UNCHANGED optVars

-----------------------------------------------------------------------------
(* OptionRegistry.validate: the parameter of an option, checked against    *)
(* the "Parameter:" line and the documented range of the option.           *)

\* The options declared "Parameter: (Int)".
IntegerOptions(scope) ==
    CASE scope = "Network" -> {31, 32, 50, 51}
      [] scope = "Database" -> {10, 20, 500, 501, 502}
      [] scope = "Transaction" -> {500, 501, 502}

\* The options declared "Parameter: (String)".
StringOptions(scope) ==
    CASE scope = "Network" -> {10, 20, 30, 33, 34, 40, 41, 43, 46, 53, 54, 62, 63}
      [] scope = "Database" -> {21, 22}
      [] scope = "Transaction" -> {401, 402, 403}

\* The options declared "Parameter: (Bytes)".
BytesOptions(scope) ==
    CASE scope = "Network" -> {42, 45, 47, 52}
      [] scope = "Database" -> {}
      [] scope = "Transaction" -> {}

\* A variant of ParameterKind in which an option that "takes no parameter"
\* takes any bytes.
ParameterKind_NoneIsBytes(scope, code) ==
    IF code \in IntegerOptions(scope) THEN "Integer"
    ELSE IF code \in StringOptions(scope) THEN "String"
    ELSE "Bytes"

\* The declared parameter kind of an option of the table of `scope`; the
\* remaining options are declared "Option takes no parameter".
ParameterKind(scope, code) ==
    IF code \in IntegerOptions(scope) THEN "Integer"
    ELSE IF code \in StringOptions(scope) THEN "String"
    ELSE IF code \in BytesOptions(scope) THEN "Bytes"
    ELSE "None"

\* The String options whose parameter may be left out: TRACE_ENABLE ("or NULL
\* for current working directory") and DEBUG_RETRY_LOGGING ("Optional
\* transaction name").
OptionalParameter(scope, code) ==
    \/ scope = "Network" /\ code = FDB_NET_OPTION_TRACE_ENABLE
    \/ scope = "Transaction" /\ code = 401

\* The size in bytes of an Int parameter, a 64-bit integer ("INT64_MAX").
IntegerSize == 8

\* The largest value of the C type int ("INT_MAX").
INT_MAX == 2147483647

RECURSIVE UnsignedLittleEndian(_)
UnsignedLittleEndian(b) ==
    IF b = <<>> THEN 0 ELSE Head(b) + (256 * UnsignedLittleEndian(Tail(b)))

\* The integer a little-endian two's-complement buffer holds.  The buffers
\* met here hold values of at most 31 bits, sign-extended to the full size.
IntegerOf(b) ==
    IF b[Len(b)] >= 128
    THEN -(1 + UnsignedLittleEndian([i \in 1..Len(b) |-> 255 - b[i]]))
    ELSE UnsignedLittleEndian(b)

ContinuationByte(x) == x >= 128 /\ x <= 191

\* Well-formed UTF-8: one to four bytes per code point, no overlong
\* encoding, no surrogate, nothing above U+10FFFF.
RECURSIVE ValidUtf8(_)
ValidUtf8(b) ==
    IF b = <<>> THEN TRUE
    ELSE LET h == b[1]
             n == Len(b)
         IN  IF h <= 127 THEN ValidUtf8(Tail(b))
             ELSE IF h >= 194 /\ h <= 223
                  THEN /\ n >= 2
                       /\ ContinuationByte(b[2])
                       /\ ValidUtf8(SubSeq(b, 3, n))
             ELSE IF h >= 224 /\ h <= 239
                  THEN /\ n >= 3
                       /\ ContinuationByte(b[2])
                       /\ ContinuationByte(b[3])
                       /\ (h = 224 => b[2] >= 160)
                       /\ (h = 237 => b[2] <= 159)
                       /\ ValidUtf8(SubSeq(b, 4, n))
             ELSE IF h >= 240 /\ h <= 244
                  THEN /\ n >= 4
                       /\ ContinuationByte(b[2])
                       /\ ContinuationByte(b[3])
                       /\ ContinuationByte(b[4])
                       /\ (h = 240 => b[2] >= 144)
                       /\ (h = 244 => b[2] <= 143)
                       /\ ValidUtf8(SubSeq(b, 5, n))
             ELSE FALSE

\* Whether the parameter has the shape of the declared kind.
ShapeAgrees(scope, code, param) ==
    LET kind == ParameterKind(scope, code)
    IN  CASE kind = "None" -> ~param.present
          [] kind = "Integer" -> param.present /\ Len(param.bytes) = IntegerSize
          [] kind = "String" ->
                IF param.present THEN ValidUtf8(param.bytes)
                ELSE OptionalParameter(scope, code)
          [] kind = "Bytes" -> param.present

\* A variant of InDocumentedRange that takes no retry limit below 0.
InDocumentedRange_RetryLimitFromZero(scope, code, v) ==
    CASE scope = "Network" /\ code \in {31, 32} -> v >= 0
      [] scope = "Network" /\ code \in {50, 51} -> v >= 0 /\ v <= 100
      [] scope = "Database" /\ code = FDB_DB_OPTION_MAX_WATCHES -> v <= 1000000
      [] scope = "Transaction"
           /\ code \in {FDB_TR_OPTION_TIMEOUT, FDB_TR_OPTION_RETRY_LIMIT,
                        FDB_TR_OPTION_MAX_RETRY_DELAY} -> v >= 0 /\ v <= INT_MAX
      [] OTHER -> TRUE

\* The documented values of an Int option: "This value should be in the
\* range [0, INT64_MAX]" (TRACE_ROLL_SIZE, TRACE_MAX_LOGS_SIZE), "a
\* percentage between 0 and 100" (the BUGGIFY probabilities), "cannot be
\* larger than 1000000" (MAX_WATCHES), "Valid parameter values are
\* [0, INT_MAX]" (TIMEOUT, MAX_RETRY_DELAY) and "[-1, INT_MAX]" (RETRY_LIMIT).
InDocumentedRange(scope, code, v) ==
    CASE scope = "Network" /\ code \in {31, 32} -> v >= 0
      [] scope = "Network" /\ code \in {50, 51} -> v >= 0 /\ v <= 100
      [] scope = "Database" /\ code = FDB_DB_OPTION_MAX_WATCHES -> v <= 1000000
      [] scope = "Transaction"
           /\ code \in {FDB_TR_OPTION_TIMEOUT, FDB_TR_OPTION_MAX_RETRY_DELAY} ->
                v >= 0 /\ v <= INT_MAX
      [] scope = "Transaction" /\ code = FDB_TR_OPTION_RETRY_LIMIT ->
                v >= -1 /\ v <= INT_MAX
      [] OTHER -> TRUE

\* validate(scope, code, paramBytes?): the error, or "Ok" and the integer
\* read from an Int parameter.
Validate(scope, code, param) ==
    IF code \notin OptionTable(scope)
    THEN [result |-> "UnknownOption", value |-> 0]
    ELSE IF ~ShapeAgrees(scope, code, param)
    THEN [result |-> "TypeMismatch", value |-> 0]
    ELSE IF ParameterKind(scope, code) # "Integer"
    THEN [result |-> "Ok", value |-> 0]
    ELSE IF ~InDocumentedRange(scope, code, IntegerOf(param.bytes))
    THEN [result |-> "OutOfRange", value |-> 0]
    ELSE [result |-> "Ok", value |-> IntegerOf(param.bytes)]

ValidateOption(scope, code, param) ==
    LET parsed == Validate(scope, code, param)
    IN  /\ last' = [op |-> "validate", scope |-> scope, code |-> code,
                    param |-> param, result |-> parsed.result,
                    value |-> parsed.value]
        /\ UNCHANGED <<apiVersion, netState, netOptions, trOptions, dbOptions, conc>>
        /\ UNCHANGED mutVars

-----------------------------------------------------------------------------
(* The inputs of validate.                                                 *)

Scopes == {"Network", "Database", "Transaction"}

\* Codes of every kind and of every documented range, with codes of the
\* other scopes and a code of no scope.
ValidateCodes(scope) ==
    CASE scope = "Network" -> {30, 31, 32, 42, 48, 50, 51, 99, 600}
      [] scope = "Database" -> {20, 21, 26, 500, 501, 502, 600}
      [] scope = "Transaction" -> {10, 26, 401, 402, 500, 501, 502, 600}

\* Integers on both sides of every documented bound.
IntValues == {-2, -1, 0, 1, 100, 101, 70000}

RECURSIVE LittleEndianBytes(_, _)
LittleEndianBytes(u, n) ==
    IF n = 0 THEN <<>> ELSE <<u % 256>> \o LittleEndianBytes(u \div 256, n - 1)

\* The 8 bytes a caller passes for the integer v: little-endian, two's
\* complement.
EncodeInt64(v) ==
    IF v >= 0 THEN LittleEndianBytes(v, 8)
    ELSE LET ones == LittleEndianBytes(-(v + 1), 8)
         IN  [i \in 1..8 |-> 255 - ones[i]]

\* Well-formed UTF-8 of one to four bytes per code point.
ValidUtf8Samples ==
    {<<>>, <<97>>, <<97, 98>>, <<195, 169>>, <<226, 130, 172>>,
     <<240, 159, 146, 150>>, <<0, 0, 0, 0, 0, 0, 0, 0>>}

\* A stray lead byte, a stray continuation byte, a truncated sequence, an
\* overlong encoding and a surrogate.
InvalidUtf8Samples ==
    {<<255>>, <<128>>, <<195>>, <<97, 195>>, <<192, 128>>, <<237, 160, 128>>,
     <<255, 255, 255, 255, 255, 255, 255, 255>>}

\* Buffers of 4, 7 and 9 bytes: not the size of an integer.
WrongSizeSamples ==
    {<<7, 0, 0, 0>>, <<7, 0, 0, 0, 0, 0, 0>>, <<7, 0, 0, 0, 0, 0, 0, 0, 0>>}

ParamSamples ==
    {Absent} \cup
    {Present(b) : b \in {EncodeInt64(v) : v \in IntValues} \cup ValidUtf8Samples
                          \cup InvalidUtf8Samples \cup WrongSizeSamples}

\* Codes looked up in each scope while options are set: codes of the scope,
\* of the other scopes and of several scopes.
LookupCodes(scope) ==
    CASE scope = "Network" -> {26, 48, 600}
      [] scope = "Database" -> {26, 500, 501, 502, 600}
      [] scope = "Transaction" -> {26, 500, 501, 502, 600}

LookupParams == {Absent, Present(EncodeInt64(0))}

\* Options set on a database handle, a transaction and the network.
RegDbCodes ==
    {FDB_DB_OPTION_SNAPSHOT_RYW_ENABLE, FDB_DB_OPTION_SNAPSHOT_RYW_DISABLE,
     FDB_DB_OPTION_TRANSACTION_TIMEOUT, FDB_TR_OPTION_SNAPSHOT_RYW_ENABLE}
RegTrCodes ==
    {FDB_TR_OPTION_SNAPSHOT_RYW_ENABLE, FDB_TR_OPTION_SNAPSHOT_RYW_DISABLE,
     FDB_TR_OPTION_TIMEOUT, FDB_DB_OPTION_SNAPSHOT_RYW_ENABLE}
RegNetCodes == {48, FDB_DB_OPTION_SNAPSHOT_RYW_ENABLE}

RegValuesOf(code) == IF code = 500 THEN TrValues ELSE {0}

-----------------------------------------------------------------------------
(* The network scope used by several threads.  Its state is process-wide   *)
(* and guarded by a single transition lock: a call takes the lock, reads   *)
(* the state, acts on what it read and gives the lock back.                *)

NumThreads == 2

Threads == 1..NumThreads

\* A thread that is in no call.
Resting == [pc |-> "idle", op |-> "none", code |-> 0, seen |-> "none", result |-> "none"]

\* Options that "must be set before setting up the network".
ConcCodes ==
    {FDB_NET_OPTION_DISABLE_MULTI_VERSION_CLIENT_API,
     FDB_NET_OPTION_EXTERNAL_CLIENT_DIRECTORY}

ThreadStep(t, from, to) ==
    /\ conc.th[t].pc = from
    /\ conc' = [conc EXCEPT !.th[t] = to]

CallSetupNetwork(t) ==
    /\ ThreadStep(t, "idle", [Resting EXCEPT !.pc = "waiting", !.op = "setup_network"])
    /\ UNCHANGED <<apiVersion, netState, netOptions, trOptions, dbOptions, last>>
    /\ UNCHANGED mutVars

CallSetNetworkOption(t, code) ==
    /\ ThreadStep(t, "idle", [Resting EXCEPT !.pc = "waiting",
                                             !.op = "set_network_option",
                                             !.code = code])
    /\ UNCHANGED <<apiVersion, netState, netOptions, trOptions, dbOptions, last>>
    /\ UNCHANGED mutVars

\* The calling thread takes the transition lock once it is free.
Acquire(t) ==
    /\ conc.th[t].pc = "waiting"
    /\ conc.lock = 0
    /\ conc' = [conc EXCEPT !.lock = t, !.th[t].pc = "locked"]
    /\ UNCHANGED <<apiVersion, netState, netOptions, trOptions, dbOptions, last>>
    /\ UNCHANGED mutVars

\* The thread holding the lock reads the state of the network scope.
Check(t) ==
    /\ conc.th[t].pc = "locked"
    /\ conc' = [conc EXCEPT !.th[t].pc = "checked", !.th[t].seen = netState]
    /\ UNCHANGED <<apiVersion, netState, netOptions, trOptions, dbOptions, last>>
    /\ UNCHANGED mutVars

\* The thread acts on the state it read and gives the lock back: the start
\* moves Configuring to Started and is a no-op on Started; an option is
\* recorded unless the state it is legal in has passed.
Complete(t) ==
    LET c == conc.th[t]
        result == IF c.op = "setup_network" THEN "Ok"
                  ELSE NetworkOptionResult(c.seen, c.code)
        started == c.op = "setup_network" /\ c.seen = "Configuring"
    IN  /\ c.pc = "checked"
        /\ netState' = IF started THEN "Started" ELSE netState
        /\ netOptions' = IF c.op = "set_network_option" /\ result = "Ok"
                         THEN netOptions \cup {c.code}
                         ELSE netOptions
        /\ conc' = [conc EXCEPT !.lock = 0,
                                !.starts = IF started THEN @ + 1 ELSE @,
                                !.th[t].pc = "returned",
                                !.th[t].result = result]
        /\ UNCHANGED <<apiVersion, trOptions, dbOptions, last>>
        /\ UNCHANGED mutVars

\* The caller has its result and is free to make its next call.
Return(t) ==
    /\ ThreadStep(t, "returned", Resting)
    /\ UNCHANGED <<apiVersion, netState, netOptions, trOptions, dbOptions, last>>
    /\ UNCHANGED mutVars

-----------------------------------------------------------------------------
(* The specifications.                                                     *)

MutIdle ==
    /\ phase = "idle"
    /\ call = NoSubmission
    /\ ret = NoReturn

Init == OptInit /\ conc = NoThreads /\ MutIdle

Next ==
    \/ \E code \in NetCodes : SetNetworkOption(code)
    \/ SetupNetwork
    \/ \E code \in TrCodes : \E value \in TrValuesOf(code) :
          SetTransactionOption(code, value)
    \/ OnError

Spec == Init /\ [][Next]_vars

MutInit ==
    /\ OptInit
    /\ conc = NoThreads
    /\ apiVersion = RetainApiVersion
    /\ MutIdle

MutNext ==
    \/ Submit
    \/ Apply
    \/ Finish

MutSpec == MutInit /\ [][MutNext]_vars

RegInit ==
    /\ OptInit
    /\ conc = NoThreads
    /\ apiVersion = RetainApiVersion
    /\ MutIdle

RegNext ==
    \/ \E scope \in Scopes : \E code \in LookupCodes(scope) :
          \E param \in LookupParams : ValidateOption(scope, code, param)
    \/ \E code \in RegDbCodes : \E value \in RegValuesOf(code) :
          SetDatabaseOption(code, value)
    \/ \E code \in RegTrCodes : \E value \in RegValuesOf(code) :
          SetTransactionOption(code, value)
    \/ \E code \in RegNetCodes : SetNetworkOption(code)

RegSpec == RegInit /\ [][RegNext]_vars

ValNext ==
    \E scope \in Scopes : \E code \in ValidateCodes(scope) :
       \E param \in ParamSamples : ValidateOption(scope, code, param)

ValSpec == RegInit /\ [][ValNext]_vars

ConcInit ==
    /\ OptInit
    /\ apiVersion = RetainApiVersion
    /\ MutIdle
    /\ conc = [lock |-> 0, starts |-> 0, th |-> [t \in Threads |-> Resting]]

ConcNext ==
    \E t \in Threads :
        \/ CallSetupNetwork(t)
        \/ \E code \in ConcCodes : CallSetNetworkOption(t, code)
        \/ Acquire(t)
        \/ Check(t)
        \/ Complete(t)
        \/ Return(t)

ConcSpec == ConcInit /\ [][ConcNext]_vars

-----------------------------------------------------------------------------
(* The network scope's legality window.                                    *)

\* C1: once the network scope is Started it stays Started, and a call that
\* sets one of the options 60, 61, 62, 63 ("must be set before setting up the
\* network") fails with OptionLateBinding and records nothing when the scope
\* is Started, and is accepted and recorded while the scope is Configuring.
NetworkWindowOneWay ==
    [][/\ netState = "Started" => netState' = "Started"
       /\ \A code \in {60, 61, 62, 63} :
            (last'.op = "set_network_option" /\ last'.code = code)
                => IF netState = "Started"
                   THEN last'.result = "OptionLateBinding" /\ netOptions' = netOptions
                   ELSE last'.result = "Ok" /\ code \in netOptions']_vars

\* C1: option 60 was accepted while Configuring, and after the network was
\* set up a call setting option 63 has failed with OptionLateBinding.
NetworkWindowClosed ==
    /\ netState = "Started"
    /\ last = [op |-> "set_network_option", code |-> 63,
               result |-> "OptionLateBinding"]
    /\ 60 \in netOptions
    /\ 63 \notin netOptions

-----------------------------------------------------------------------------
(* The reset of a transaction by onError.                                  *)

\* C2: the reset done by onError leaves TIMEOUT (500), RETRY_LIMIT (501) and
\* MAX_RETRY_DELAY (502) as they were when the API version is 610 or more,
\* and clears them when it is less; every other transaction option is cleared
\* at every API version.
OnErrorResetByApiVersion ==
    [][last'.op = "on_error" =>
          /\ \A code \in {500, 501, 502} :
                IF apiVersion >= 610
                THEN trOptions'[code] = trOptions[code]
                ELSE ~trOptions'[code].set
          /\ \A code \in FDBTransactionOption \ {500, 501, 502} :
                ~trOptions'[code].set]_vars

\* C2: at API version 610 onError has reset a transaction whose timeout,
\* retry limit and maximum retry delay were set, and they still are.
OnErrorKeptRetryOptions ==
    /\ apiVersion = 610
    /\ last.op = "on_error"
    /\ trOptions[500] = SetTo(7)
    /\ trOptions[501] = SetTo(0)
    /\ trOptions[502] = SetTo(7)
    /\ ~trOptions[10].set

-----------------------------------------------------------------------------
(* What the claims about the mutation engine are stated with.              *)

\* The unsigned integer a byte string holds in little-endian order.
RECURSIVE LittleEndianValue(_)
LittleEndianValue(b) ==
    IF Len(b) = 0 THEN 0 ELSE Head(b) + (256 * LittleEndianValue(Tail(b)))

RECURSIVE Power256(_)
Power256(n) == IF n = 0 THEN 1 ELSE 256 * Power256(n - 1)

RECURSIVE Zeros(_)
Zeros(n) == IF n = 0 THEN <<>> ELSE <<0>> \o Zeros(n - 1)

\* The existing value brought to n bytes: zero bytes added on the right of a
\* shorter (or absent) one, the first n bytes of a longer one.
BroughtTo(existing, n) ==
    IF ~existing.present THEN Zeros(n)
    ELSE IF Len(existing.bytes) < n
         THEN existing.bytes \o Zeros(n - Len(existing.bytes))
         ELSE SubSeq(existing.bytes, 1, n)

\* a is below b as raw byte strings: at the first place where they differ a
\* has the smaller byte, or a has ended there and b has not.
Below(a, b) ==
    \E i \in 1..Len(b) :
        /\ i <= Len(a) + 1
        /\ \A j \in 1..(i - 1) : a[j] = b[j]
        /\ (i = Len(a) + 1 \/ a[i] < b[i])

Applied(ops) == phase = "applied" /\ call.op \in ops

-----------------------------------------------------------------------------
(* ADD                                                                     *)

\* C3: ADD returns a value of exactly len(param) bytes whose little-endian
\* value is the sum of the existing value (brought to len(param) bytes) and
\* param, modulo 2^(8*len(param)); it never fails.
AddIsLittleEndianSum ==
    Applied({2}) =>
        LET n == Len(call.param)
        IN  /\ ret.err = "none"
            /\ ret.value.present
            /\ Len(ret.value.bytes) = n
            /\ LittleEndianValue(ret.value.bytes)
                 = (LittleEndianValue(BroughtTo(call.existing, n))
                      + LittleEndianValue(call.param)) % Power256(n)

\* C3: a three-byte value was truncated to two bytes and the sum wrapped
\* around: 65535 + 65281 = 65280 modulo 65536.
AddWrappedAround ==
    /\ Applied({2})
    /\ call.existing = Present(<<255, 255, 1>>)
    /\ call.param = <<1, 255>>
    /\ ret.value = Present(<<0, 255>>)

-----------------------------------------------------------------------------
(* Order of two mutations of one type                                      *)

Commutative == {2, 6, 7, 8, 12, 13}

\* C4 as stated: for parameters of any lengths, applying p1 then p2 gives
\* what applying p2 then p1 gives.
OrderIndependentAnyLengths ==
    Applied(Commutative) =>
        \A p2 \in Params :
            MutatedValue(ret.value, call.op, p2)
                = MutatedValue(MutatedValue(call.existing, call.op, p2),
                               call.op, call.param)

\* C4, amended: for parameters p1 and p2 of one length, applying p1 then p2
\* gives what applying p2 then p1 gives, for ADD, BIT_AND, BIT_OR, BIT_XOR,
\* MAX and MIN and every existing value.
OrderIndependentEqualLengths ==
    Applied(Commutative) =>
        \A p2 \in {p \in Params : Len(p) = Len(call.param)} :
            MutatedValue(ret.value, call.op, p2)
                = MutatedValue(MutatedValue(call.existing, call.op, p2),
                               call.op, call.param)

\* C4: MAX was applied with <<1, 1>> to a one-byte value; <<255, 1>> applied
\* after it, or before it, gives <<255, 1>>.
MaxAppliedInBothOrders ==
    /\ Applied({12})
    /\ call.existing = Present(<<255>>)
    /\ call.param = <<1, 1>>
    /\ ret.value = Present(<<1, 1>>)
    /\ MutatedValue(ret.value, 12, <<255, 1>>) = Present(<<255, 1>>)
    /\ MutatedValue(MutatedValue(call.existing, 12, <<255, 1>>), 12, call.param)
         = Present(<<255, 1>>)

-----------------------------------------------------------------------------
(* SET_VERSIONSTAMPED_KEY and SET_VERSIONSTAMPED_VALUE                     *)

\* `out` is the payload of `operand` (all but its last four bytes) with the
\* ten bytes from the offset those four bytes hold replaced by the committed
\* version, big-endian, and the order, big-endian.
IsVersionstamped(out, operand, version, order) ==
    LET n == Len(operand) - 4
        pos == LittleEndianValue(SubSeq(operand, n + 1, n + 4))
    IN  /\ Len(out) = n
        /\ \A i \in 1..n : (i <= pos \/ i > pos + 10) => out[i] = operand[i]
        /\ \A w \in 1..4 :
              (256 * out[pos + (2 * w) - 1]) + out[pos + (2 * w)] = version[w]
        /\ (256 * out[pos + 9]) + out[pos + 10] = order

\* The operand is too short for the offset, or the ten bytes at the offset do
\* not lie within the payload.
OffsetOutOfBounds(operand) ==
    \/ Len(operand) < 4
    \/ LittleEndianValue(SubSeq(operand, Len(operand) - 3, Len(operand))) + 10
         > Len(operand) - 4

-----------------------------------------------------------------------------
(* APPEND_IF_FITS                                                          *)

-----------------------------------------------------------------------------
(* COMPARE_AND_CLEAR                                                       *)

\* C7: COMPARE_AND_CLEAR clears the key when the existing value is present,
\* as long as param and equal to it byte for byte, and leaves the value as it
\* was in every other case.
CompareAndClearIsExact ==
    Applied({20}) =>
        /\ ret.err = "none"
        /\ ret.value =
              IF /\ call.existing.present
                 /\ Len(call.existing.bytes) = Len(call.param)
                 /\ \A i \in 1..Len(call.param) : call.existing.bytes[i] = call.param[i]
              THEN Absent
              ELSE call.existing

\* C7: the value <<1>> was compared with <<1, 0>>, which is its zero
\* extension, and was not cleared.
CompareAndClearKeptShorterValue ==
    /\ Applied({20})
    /\ call.existing = Present(<<1>>)
    /\ call.param = <<1, 0>>
    /\ ret.value = Present(<<1>>)

-----------------------------------------------------------------------------
(* BIT_AND and MIN of a value that is not present                          *)

\* C8: BIT_AND (6, also the deprecated AND) and MIN store param as it is when
\* the existing value is not present.
AbsentStoresParam ==
    (Applied({6, 13}) /\ ~call.existing.present) =>
        ret.err = "none" /\ ret.value = Present(call.param)

\* C8: BIT_AND of a value that is not present with <<255, 1>> stored
\* <<255, 1>>, not <<0, 0>>.
BitAndOfAbsentStoredParam ==
    /\ Applied({6})
    /\ ~call.existing.present
    /\ call.param = <<255, 1>>
    /\ ret.value = Present(<<255, 1>>)

-----------------------------------------------------------------------------
(* MAX and MIN of a present value                                          *)

\* C9: with a present existing value, MAX returns the greater and MIN the
\* lesser of param and the existing value brought to len(param) bytes, the
\* two compared as little-endian unsigned integers; the result has
\* len(param) bytes and is one of the two.
MaxMinIsLittleEndian ==
    (Applied({12, 13}) /\ call.existing.present) =>
        LET n == Len(call.param)
            e == BroughtTo(call.existing, n)
            ve == LittleEndianValue(e)
            vp == LittleEndianValue(call.param)
        IN  /\ ret.err = "none"
            /\ ret.value.present
            /\ Len(ret.value.bytes) = n
            /\ ret.value.bytes \in {e, call.param}
            /\ LittleEndianValue(ret.value.bytes) =
                  IF call.op = 12
                  THEN (IF ve > vp THEN ve ELSE vp)
                  ELSE (IF ve < vp THEN ve ELSE vp)

\* C9: MIN of 256 and 512, both as two little-endian bytes, returned 256.
MinOf256And512 ==
    /\ Applied({13})
    /\ call.existing = Present(<<0, 1>>)
    /\ call.param = <<0, 2>>
    /\ ret.value = Present(<<0, 1>>)

-----------------------------------------------------------------------------
(* BYTE_MIN and BYTE_MAX                                                   *)

\* C10: BYTE_MIN and BYTE_MAX store param when the existing value is not
\* present; otherwise the result is the existing value or param, as it is,
\* and neither of the two is above it (BYTE_MAX) or below it (BYTE_MIN) as a
\* raw byte string.
ByteMinMaxIsLexicographic ==
    Applied({16, 17}) =>
        /\ ret.err = "none"
        /\ ret.value.present
        /\ IF ~call.existing.present
           THEN ret.value.bytes = call.param
           ELSE /\ ret.value.bytes \in {call.existing.bytes, call.param}
                /\ \A other \in {call.existing.bytes, call.param} :
                      IF call.op = 17
                      THEN ~Below(ret.value.bytes, other)
                      ELSE ~Below(other, ret.value.bytes)

\* C10: BYTE_MAX of <<1>> and <<1, 0>> returned <<1, 0>>: the proper prefix
\* is below the longer string.
ByteMaxOfPrefix ==
    /\ Applied({17})
    /\ call.existing = Present(<<1>>)
    /\ call.param = <<1, 0>>
    /\ ret.value = Present(<<1, 0>>)

-----------------------------------------------------------------------------
\* The call just made set, through `op`, one option of `pair`.
SetOneOf(op, pair) == last'.op = op /\ last'.code \in pair

\* C11: within one scope SNAPSHOT_RYW_ENABLE and SNAPSHOT_RYW_DISABLE
\* (database 26/27, transaction 600/601) are mutually exclusive: at most one
\* of the two is recorded on a handle, setting either of them returns no
\* error and records it, and no other call changes which one is recorded, so
\* the one recorded is the one set most recently.
SnapshotRywExclusive ==
    [][ /\ ~(dbOptions'[26].set /\ dbOptions'[27].set)
        /\ ~(trOptions'[600].set /\ trOptions'[601].set)
        /\ IF SetOneOf("set_database_option", {26, 27})
           THEN last'.result = "Ok" /\ dbOptions'[last'.code].set
           ELSE dbOptions'[26] = dbOptions[26] /\ dbOptions'[27] = dbOptions[27]
        /\ IF SetOneOf("set_transaction_option", {600, 601})
           THEN last'.result = "Ok" /\ trOptions'[last'.code].set
           ELSE trOptions'[600] = trOptions[600] /\ trOptions'[601] = trOptions[601]
      ]_vars

\* SNAPSHOT_RYW_DISABLE was just set on the transaction and is the one
\* recorded, while the database handle records SNAPSHOT_RYW_ENABLE.
SnapshotRywDisableRecorded ==
    /\ last.op = "set_transaction_option"
    /\ last.code = 601
    /\ trOptions[601].set
    /\ ~trOptions[600].set
    /\ dbOptions[26].set
    /\ ~dbOptions[27].set

-----------------------------------------------------------------------------
\* What the lookup just made answered for a code of a scope.
Unknown(scope, code) ==
    last'.scope = scope /\ last'.code = code => last'.result = "UnknownOption"

Accepted(scope, code, param) ==
    last'.scope = scope /\ last'.code = code /\ last'.param = param
        => last'.result = "Ok"

\* C12: an option is looked up in the table of its scope: validate returns
\* UnknownOption exactly when the code is not in the table of the scope; 500,
\* 501 and 502 are accepted in the database and in the transaction scope, 600
\* in the transaction scope only, 26 in the database scope only; and setting
\* an option in one scope leaves the options of the other scopes as they were.
LookupIsPerScope ==
    [][ /\ last'.op = "validate" =>
              /\ last'.result = "UnknownOption"
                    <=> last'.code \notin OptionTable(last'.scope)
              /\ \A code \in {500, 501, 502} :
                    /\ Accepted("Database", code, Present(EncodeInt64(0)))
                    /\ Accepted("Transaction", code, Present(EncodeInt64(0)))
                    /\ Unknown("Network", code)
              /\ Accepted("Transaction", 600, Absent)
              /\ Unknown("Database", 600)
              /\ Unknown("Network", 600)
              /\ Accepted("Database", 26, Absent)
              /\ Unknown("Transaction", 26)
              /\ Unknown("Network", 26)
        /\ last'.op = "set_database_option" =>
              trOptions' = trOptions /\ netOptions' = netOptions
        /\ last'.op = "set_transaction_option" =>
              dbOptions' = dbOptions /\ netOptions' = netOptions
        /\ last'.op = "set_network_option" =>
              dbOptions' = dbOptions /\ trOptions' = trOptions
      ]_vars

\* The timeout is set on the database handle and not on the transaction, and
\* code 600 was just looked up in the database scope.
TransactionCodeUnknownToDatabase ==
    /\ dbOptions[500].set
    /\ ~trOptions[500].set
    /\ last.op = "validate"
    /\ last.scope = "Database"
    /\ last.code = 600
    /\ last.result = "UnknownOption"

-----------------------------------------------------------------------------
\* The integer just validated was accepted if in range, refused if not.
Within(inRange) == last.result = IF inRange THEN "Ok" ELSE "OutOfRange"

\* C13: validate returns OutOfRange for an integer outside the documented
\* range of the option, and accepts every integer inside it: 31 and 32 take
\* no negative value, 50 and 51 no value outside [0, 100], the transaction
\* options 500 and 502 no negative value and 501 no value below -1; 0, 100
\* and -1 are accepted.
BoundsEnforced ==
    last.op = "validate" =>
        \A v \in IntValues :
            last.param = Present(EncodeInt64(v)) =>
                /\ last.scope = "Network" /\ last.code \in {31, 32} => Within(v >= 0)
                /\ last.scope = "Network" /\ last.code \in {50, 51} =>
                      Within(v >= 0 /\ v <= 100)
                /\ last.scope = "Transaction" /\ last.code \in {500, 502} =>
                      Within(v >= 0)
                /\ last.scope = "Transaction" /\ last.code = 501 => Within(v >= -1)

\* A retry limit of -2 was refused.
RetryLimitBelowMinusOne ==
    /\ last.op = "validate"
    /\ last.scope = "Transaction"
    /\ last.code = 501
    /\ last.param = Present(<<254, 255, 255, 255, 255, 255, 255, 255>>)
    /\ last.result = "OutOfRange"

-----------------------------------------------------------------------------
\* The options of `codes` are declared with parameter kind `kind`.
DeclaredAs(kind, scope, codes) ==
    last.scope = scope /\ last.code \in codes
        => ParameterKind(last.scope, last.code) = kind

\* C14: validate checks the parameter against the declared kind of the
\* option: an option that takes no parameter (48 of the network, 10 of the
\* transaction) returns TypeMismatch when bytes are passed, an Int option
\* when the parameter is absent or is not 8 bytes long, a String option when
\* the bytes are not valid UTF-8; a parameter of the declared shape is
\* accepted, and an Int parameter reads back as the integer it encodes.
ShapeChecked ==
    last.op = "validate" /\ last.code \in OptionTable(last.scope) =>
        LET kind == ParameterKind(last.scope, last.code)
        IN  /\ DeclaredAs("None", "Network", {48})
            /\ DeclaredAs("None", "Database", {26})
            /\ DeclaredAs("None", "Transaction", {10, 600})
            /\ DeclaredAs("Integer", "Network", {31, 32, 50, 51})
            /\ DeclaredAs("Integer", "Database", {20, 500, 501, 502})
            /\ DeclaredAs("Integer", "Transaction", {500, 501, 502})
            /\ DeclaredAs("String", "Network", {30})
            /\ DeclaredAs("String", "Database", {21})
            /\ DeclaredAs("String", "Transaction", {401, 402})
            /\ kind = "None" =>
                  last.result = IF last.param.present THEN "TypeMismatch" ELSE "Ok"
            /\ kind = "Integer" =>
                  /\ ~last.param.present => last.result = "TypeMismatch"
                  /\ last.param.present /\ Len(last.param.bytes) # 8 =>
                        last.result = "TypeMismatch"
                  /\ \A v \in IntValues :
                        last.param = Present(EncodeInt64(v)) =>
                            /\ last.result \in {"Ok", "OutOfRange"}
                            /\ last.result = "Ok" => last.value = v
            /\ kind = "String" /\ last.param.present =>
                  /\ last.param.bytes \in InvalidUtf8Samples =>
                        last.result = "TypeMismatch"
                  /\ last.param.bytes \in ValidUtf8Samples => last.result = "Ok"

\* BUGGIFY_ENABLE was refused the byte it was passed.
ParameterPassedToBuggifyEnable ==
    /\ last.op = "validate"
    /\ last.scope = "Network"
    /\ last.code = 48
    /\ last.param = Present(<<97>>)
    /\ last.result = "TypeMismatch"

-----------------------------------------------------------------------------
\* Thread t's call takes effect and returns in this step.
Completes(t) == conc.th[t].pc = "checked" /\ conc'.th[t].pc = "returned"

\* C15: however the calls of several threads interleave, the network state
\* goes from Configuring to Started once and never back; a start returns no
\* error, and one that finds the state Started changes nothing; setting an
\* option that must be set before the start either records it while the
\* state is Configuring or returns OptionLateBinding and leaves the recorded
\* options as they were; the recorded options change only while the state is
\* Configuring.
NetworkStartsOnce ==
    [][ /\ conc'.starts <= 1
        /\ netState' = "Started" <=> conc'.starts = 1
        /\ netState = "Started" => netState' = "Started"
        /\ \A t \in Threads :
              Completes(t) =>
                  LET c == conc'.th[t]
                  IN  /\ c.op = "setup_network" =>
                            /\ c.result = "Ok"
                            /\ netState' = "Started"
                            /\ netOptions' = netOptions
                            /\ conc'.starts =
                                  IF netState = "Started" THEN conc.starts
                                  ELSE conc.starts + 1
                      /\ c.op = "set_network_option" /\ c.code \in {60, 61, 62, 63} =>
                            /\ netState' = netState
                            /\ conc'.starts = conc.starts
                            /\ \/ /\ netState = "Configuring"
                                  /\ c.result = "Ok"
                                  /\ netOptions' = netOptions \cup {c.code}
                               \/ /\ netState = "Started"
                                  /\ c.result = "OptionLateBinding"
                                  /\ netOptions' = netOptions
        /\ netOptions' # netOptions => netState = "Configuring"
      ]_vars

\* One thread started the network; another, whose call took effect after
\* that, was refused EXTERNAL_CLIENT_DIRECTORY, and a third call, made
\* earlier, had DISABLE_MULTI_VERSION_CLIENT_API recorded.
LateOptionRefusedAfterStart ==
    \E t1, t2 \in Threads :
        /\ conc.th[t1].pc = "returned"
        /\ conc.th[t1].op = "setup_network"
        /\ conc.th[t1].seen = "Configuring"
        /\ conc.th[t2].pc = "returned"
        /\ conc.th[t2].op = "set_network_option"
        /\ conc.th[t2].code = 63
        /\ conc.th[t2].result = "OptionLateBinding"
        /\ netState = "Started"
        /\ netOptions = {60}

====
